---------------------------- MODULE Spec2Model ----------------------------
(***************************************************************************)
(* Expense tracker (src/app.py): the expense ledger, the amount extractor, *)
(* the aggregator, the insight generator, the Gmail sync and the routes    *)
(* that drive them.                                                        *)
(*                                                                         *)
(* Conventions.  A calendar date 'YYYY-MM-DD' is the triple <<y, m, d>>:   *)
(* the zero-padded ISO text compares as the triple does, field by field.   *)
(* An amount is an integer number of hundredths (1250 is 12.50).  A text   *)
(* is a sequence of one-character strings.  Python's None of an optional   *)
(* number is the record None.                                              *)
(***************************************************************************)
EXTENDS Integers, Sequences, FiniteSets, TLC

VARIABLES
    today,            \* dt.date.today() of the server
    expenses,         \* table expenses, in insertion order
    sqlite_sequence,  \* AUTOINCREMENT's largest identifier handed out (expenses)
    todos,            \* table todos, in insertion order
    todo_sequence,    \* AUTOINCREMENT's largest identifier handed out (todos)
    settings,         \* table settings: gmail_client_config, gmail_token
    OAUTH_FLOWS,      \* state -> Flow, in process memory
    issued,           \* number of state tokens the OAuth library has generated
    mailbox,          \* the mail provider's result set: a chain of pages
    resp,             \* the response to the last request
    text,             \* the extractor's input (SpecParse)
    parsed,           \* the extractor's output (SpecParse)
    summary_in,       \* the insight generator's input (SpecInsights)
    insights_out,     \* the insight generator's output (SpecInsights)
    reading           \* a GET /api/state between its two queries (SpecReads)

vars == <<today, expenses, sqlite_sequence, todos, todo_sequence, settings,
          OAUTH_FLOWS, issued, mailbox, resp, text, parsed, summary_in,
          insights_out, reading>>

-----------------------------------------------------------------------------
(* Bounds of the model.                                                    *)

MaxExpenses == 2
MaxTodos == 1
MaxFlows == 1
MaxFrags == 4
MaxRequests == 4
MaxMonths == 2

-----------------------------------------------------------------------------
(* Small helpers.                                                          *)

None == [some |-> FALSE, val |-> 0]
Some(v) == [some |-> TRUE, val |-> v]

RECURSIVE SeqMax(_)
SeqMax(s) == IF Len(s) = 1 THEN s[1]
             ELSE LET r == SeqMax(Tail(s)) IN IF s[1] >= r THEN s[1] ELSE r

RECURSIVE Flatten(_)
Flatten(ss) == IF ss = <<>> THEN <<>> ELSE Head(ss) \o Flatten(Tail(ss))

SetMax(S) == CHOOSE x \in S : \A y \in S : y <= x

-----------------------------------------------------------------------------
(* The amount extractor: AMOUNT_REGEX and parse_amount.                    *)

Rupee == "U+20B9"
Digit == {"0", "1", "2", "5"}
Space == {" ", "\n"}

DigitVal(c) == CASE c = "0" -> 0 [] c = "1" -> 1 [] c = "2" -> 2 [] c = "5" -> 5

\* re.IGNORECASE: a letter of the text matches the pattern's letter of
\* either case.
Fold(c) == CASE c = "I" -> "i" [] c = "N" -> "n" [] c = "R" -> "r"
             [] c = "S" -> "s" [] OTHER -> c

LitAt(t, i, lit) ==
    /\ i + Len(lit) - 1 <= Len(t)
    /\ \A k \in 1..Len(lit) : Fold(t[i + k - 1]) = lit[k]

\* (?:Rupee|INR|Rs\.?) tried at position i: the positions after the marker,
\* in the order the engine tries them (alternatives left to right, the
\* optional period taken first and given back on backtracking).
MarkerEnds(t, i) ==
    IF LitAt(t, i, <<Rupee>>) THEN <<i + 1>>
    ELSE IF LitAt(t, i, <<"i", "n", "r">>) THEN <<i + 3>>
    ELSE IF LitAt(t, i, <<"r", "s">>)
         THEN IF LitAt(t, i + 2, <<".">>) THEN <<i + 3, i + 2>> ELSE <<i + 2>>
    ELSE <<>>

\* \s* is greedy; the digit that must follow is no space, so only the
\* longest run of spaces can lead to a match.
RECURSIVE SkipSpaces(_, _)
SkipSpaces(t, j) ==
    IF j <= Len(t) /\ t[j] \in Space THEN SkipSpaces(t, j + 1) ELSE j

\* [0-9,]* , greedy: the position after the run.
RECURSIVE SkipDigitsCommas(_, _)
SkipDigitsCommas(t, j) ==
    IF j <= Len(t) /\ t[j] \in Digit \cup {","}
    THEN SkipDigitsCommas(t, j + 1) ELSE j

\* (?:\.[0-9]{1,2})? , greedy: the position after the fraction, if any.
FractionEnd(t, j) ==
    IF j + 1 <= Len(t) /\ t[j] = "." /\ t[j + 1] \in Digit
    THEN IF j + 2 <= Len(t) /\ t[j + 2] \in Digit THEN j + 3 ELSE j + 2
    ELSE j

\* ([0-9][0-9,]*(?:\.[0-9]{1,2})?) after \s*, from position j (after the
\* marker): the match, or no match.
NumberFrom(t, j) ==
    LET k == SkipSpaces(t, j) IN
    IF k <= Len(t) /\ t[k] \in Digit
    THEN LET e == FractionEnd(t, SkipDigitsCommas(t, k + 1))
         IN  [ok |-> TRUE, end |-> e, group |-> SubSeq(t, k, e - 1)]
    ELSE [ok |-> FALSE, end |-> j, group |-> <<>>]

RECURSIVE FirstOk(_, _)
FirstOk(t, ends) ==
    IF ends = <<>> THEN [ok |-> FALSE, end |-> 0, group |-> <<>>]
    ELSE LET r == NumberFrom(t, Head(ends))
         IN  IF r.ok THEN r ELSE FirstOk(t, Tail(ends))

\* AMOUNT_REGEX matched at position i.
AMOUNT_REGEX(t, i) == FirstOk(t, MarkerEnds(t, i))

\* AMOUNT_REGEX.finditer(text): the group(1) of every match, scanning left
\* to right, each search resuming where the previous match ended.
RECURSIVE finditer(_, _)
finditer(t, i) ==
    IF i > Len(t) THEN <<>>
    ELSE LET r == AMOUNT_REGEX(t, i)
         IN  IF r.ok THEN <<r.group>> \o finditer(t, r.end)
             ELSE finditer(t, i + 1)

\* m.replace(",", "")
RemoveCommas(s) == SelectSeq(s, LAMBDA c : c # ",")

RECURSIVE DigitsVal(_)
DigitsVal(s) ==
    IF s = <<>> THEN 0 ELSE 10 * DigitsVal(SubSeq(s, 1, Len(s) - 1)) + DigitVal(s[Len(s)])

DotAt(s) == IF \E k \in 1..Len(s) : s[k] = "."
            THEN CHOOSE k \in 1..Len(s) : s[k] = "." /\ \A h \in 1..(k - 1) : s[h] # "."
            ELSE Len(s) + 1

\* float(s) of a decimal literal, in hundredths; ValueError (ok = FALSE) for
\* a text that is no decimal literal.  AMOUNT_REGEX admits at most two
\* fraction digits, so the hundredths are exact.
PyFloat(s) ==
    LET p == DotAt(s)
        ip == SubSeq(s, 1, p - 1)
        fp == SubSeq(s, p + 1, Len(s))
        wellformed == /\ \A k \in 1..Len(ip) : ip[k] \in Digit
                      /\ \A k \in 1..Len(fp) : fp[k] \in Digit
                      /\ Len(ip) + Len(fp) >= 1
        frac == IF Len(fp) = 0 THEN 0
                ELSE IF Len(fp) = 1 THEN 10 * DigitVal(fp[1])
                ELSE 10 * DigitVal(fp[1]) + DigitVal(fp[2])
    IN  IF wellformed THEN [ok |-> TRUE, val |-> 100 * DigitsVal(ip) + frac]
        ELSE [ok |-> FALSE, val |-> 0]

\* The float of each match that float() accepts, in match order.
RECURSIVE Floats(_)
Floats(ms) ==
    IF ms = <<>> THEN <<>>
    ELSE LET f == PyFloat(RemoveCommas(Head(ms)))
         IN  (IF f.ok THEN <<f.val>> ELSE <<>>) \o Floats(Tail(ms))

PickMaxFirst(nums) == nums[1]

PickMax(nums) == SeqMax(nums)

parse_amount(t) ==
    LET matches == finditer(t, 1) IN
    IF matches = <<>> THEN None
    ELSE LET nums == Floats(matches)
         IN  IF nums # <<>> THEN Some(PickMax(nums)) ELSE None

-----------------------------------------------------------------------------
(* Python's datetime.date: the proleptic Gregorian calendar, years 1..9999. *)

IsLeap(y) == (y % 4 = 0 /\ y % 100 # 0) \/ y % 400 = 0

DaysInMonth(y, m) ==
    IF m = 2 THEN (IF IsLeap(y) THEN 29 ELSE 28)
    ELSE IF m \in {4, 6, 9, 11} THEN 30 ELSE 31

DaysBeforeYear(y) ==
    (y - 1) * 365 + ((y - 1) \div 4) - ((y - 1) \div 100) + ((y - 1) \div 400)

RECURSIVE DaysBeforeMonth(_, _)
DaysBeforeMonth(y, m) ==
    IF m = 1 THEN 0 ELSE DaysBeforeMonth(y, m - 1) + DaysInMonth(y, m - 1)

\* date.toordinal(): 0001-01-01 is day 1.
ToOrdinal(d) == DaysBeforeYear(d[1]) + DaysBeforeMonth(d[1], d[2]) + d[3]

\* date.fromordinal(n), for an ordinal in range.
FromOrdinal(n) ==
    LET y == CHOOSE c \in (n \div 366)..((n \div 365) + 1) :
                 c >= 1 /\ DaysBeforeYear(c) < n /\ n <= DaysBeforeYear(c + 1)
        r == n - DaysBeforeYear(y)
        m == CHOOSE c \in 1..12 :
                 DaysBeforeMonth(y, c) < r /\ r <= DaysBeforeMonth(y, c) + DaysInMonth(y, c)
    IN  <<y, m, r - DaysBeforeMonth(y, m)>>

\* dt.date(y, m, d): ValueError (ok = FALSE) outside the calendar.
PyDate(y, m, d) ==
    IF y >= 1 /\ y <= 9999 /\ m >= 1 /\ m <= 12 /\ d >= 1 /\ d <= DaysInMonth(y, m)
    THEN [ok |-> TRUE, date |-> <<y, m, d>>]
    ELSE [ok |-> FALSE, date |-> <<0, 0, 0>>]

\* date - dt.timedelta(days=k): OverflowError (ok = FALSE) when the result
\* leaves the calendar.
DateMinusDays(d, k) ==
    LET o == ToOrdinal(d) - k IN
    IF o >= 1 /\ o <= DaysBeforeYear(10000)
    THEN [ok |-> TRUE, date |-> FromOrdinal(o)]
    ELSE [ok |-> FALSE, date |-> <<0, 0, 0>>]

\* Comparison of two ISO date texts (SQLite's text comparison, Python's
\* sorted): character by character, which for zero-padded fields is field
\* by field.
RECURSIVE TupleLess(_, _)
TupleLess(a, b) ==
    IF a = <<>> \/ b = <<>> THEN a = <<>> /\ b # <<>>
    ELSE IF Head(a) # Head(b) THEN Head(a) < Head(b)
    ELSE TupleLess(Tail(a), Tail(b))

TextGE(a, b) == ~TupleLess(a, b)

\* date[:7], the 'YYYY-MM' key.
MonthKey(d) == <<d[1], d[2]>>

-----------------------------------------------------------------------------
(* The insight generator.                                                  *)

\* sorted(by_month.keys())
RECURSIVE SortKeys(_)
SortKeys(S) ==
    IF S = {} THEN <<>>
    ELSE LET least == CHOOSE k \in S : \A o \in S : o = k \/ TupleLess(k, o)
         IN  <<least>> \o SortKeys(S \ {least})

\* (m % 12) + 1
NextMonthNumber(m) == (m % 12) + 1

\* Lines 214-221: the days of the latest month counted so far; err when
\* dt.date(...) or the subtraction raises.
days_so_far(y, m, now) ==
    IF now[1] = y /\ now[2] = m THEN [err |-> FALSE, days |-> now[3]]
    ELSE LET first == PyDate(y, NextMonthNumber(m), 1) IN
         IF ~first.ok THEN [err |-> TRUE, days |-> 0]
         ELSE LET last == DateMinusDays(first.date, 1) IN
              IF ~last.ok THEN [err |-> TRUE, days |-> 0]
              ELSE [err |-> FALSE, days |-> last.date[3]]

\* build_insights(summary), with dt.date.today() = now.  An insight is kept
\* as the quantities its sentence is formatted from.
build_insights(by_month, now) ==
    IF DOMAIN by_month = {} THEN [err |-> FALSE, days |-> 0, insights |-> <<>>]
    ELSE
    LET months == SortKeys(DOMAIN by_month)
        last == months[Len(months)]
        last_spend == by_month[last]
        dsf == days_so_far(last[1], last[2], now)
        first == [kind |-> "spending", month |-> last, total |-> last_spend,
                  days |-> dsf.days]
        second ==
            IF Len(months) >= 2
            THEN LET prev == months[Len(months) - 1]
                     prev_spend == by_month[prev]
                     diff == last_spend - prev_spend
                 IN  IF prev_spend > 0
                     THEN <<[kind |-> "change", month |-> last, prev |-> prev,
                             diff |-> diff, base |-> prev_spend,
                             direction |-> IF diff > 0 THEN "higher" ELSE "lower"]>>
                     ELSE <<>>
            ELSE <<>>
    IN  IF dsf.err THEN [err |-> TRUE, days |-> 0, insights |-> <<>>]
        ELSE [err |-> FALSE, days |-> dsf.days, insights |-> <<first>> \o second]

-----------------------------------------------------------------------------
(* The expense store.  A row is [id, source, date, amount, via]; merchant,  *)
(* description, raw and created_at are written by the INSERT alone and read *)
(* by nothing modelled here.  via is history: the handler that inserted.    *)

HAS_GMAIL == TRUE

NextIdReuse(db, seq) == SetMax({db[i].id : i \in 1..Len(db)} \cup {seq})

\* INTEGER PRIMARY KEY AUTOINCREMENT: one more than the largest identifier
\* the table has ever held.
NextId(db, seq) ==
    LET used == {db[i].id : i \in 1..Len(db)} \cup {seq} IN SetMax(used) + 1

\* A connection on the database file: expenses and sqlite_sequence as the
\* connection sees them, durable as the file holds them.
Connect(db, seq) ==
    [expenses |-> db, sqlite_sequence |-> seq,
     durable |-> [expenses |-> db, sqlite_sequence |-> seq]]

CommitDeferred(st) == st

\* conn.commit(), line 130: what the connection wrote reaches the file.
Commit(st) ==
    [st EXCEPT !.durable = [expenses |-> st.expenses,
                            sqlite_sequence |-> st.sqlite_sequence]]

\* store_expense: INSERT and commit.
store_expense(st, source, date, amount, via) ==
    LET id == NextId(st.expenses, st.sqlite_sequence) IN
    Commit([st EXCEPT !.expenses = Append(@, [id |-> id, source |-> source,
                                              date |-> date, amount |-> amount,
                                              via |-> via]),
                      !.sqlite_sequence = id])

-----------------------------------------------------------------------------
(* The aggregator.                                                         *)

WindowOffsetShort(days) == days

\* timedelta(days=days - 1)
WindowOffset(days) == days - 1

\* The WHERE clause both queries share.
Selected(r, days, source, now) ==
    /\ days > 0 => TextGE(r.date, DateMinusDays(now, WindowOffset(days)).date)
    /\ source # "all" => r.source = source

RowBeforeAscendingId(a, b) ==
    TupleLess(b.date, a.date) \/ (a.date = b.date /\ a.id < b.id)

\* ORDER BY date DESC, id DESC: a comes before b.
RowBefore(a, b) ==
    TupleLess(b.date, a.date) \/ (a.date = b.date /\ a.id > b.id)

RECURSIVE OrderBy(_)
OrderBy(S) ==
    IF S = {} THEN <<>>
    ELSE LET first == CHOOSE a \in S : \A b \in S : a = b \/ RowBefore(a, b)
         IN  <<first>> \o OrderBy(S \ {first})

Range(s) == {s[i] : i \in 1..Len(s)}

AccumulateLatest(rows) == IF rows = <<>> THEN 0 ELSE rows[Len(rows)].amount

\* total += amount, over the rows in turn.
RECURSIVE Accumulate(_)
Accumulate(rows) ==
    IF rows = <<>> THEN 0 ELSE Head(rows).amount + Accumulate(Tail(rows))

\* summarize_expenses, its first query reading the table as first and its
\* second (the ordered list) reading it as second.
summarize_reads(first, second, days, source, now) ==
    LET rows == SelectSeq(first, LAMBDA r : Selected(r, days, source, now))
        rows_full == OrderBy({r \in Range(second) : Selected(r, days, source, now)})
        months == {MonthKey(rows[i].date) : i \in 1..Len(rows)}
        dates == {rows[i].date : i \in 1..Len(rows)}
    IN  [total |-> Accumulate(rows),
         by_month |-> [k \in months |->
                         Accumulate(SelectSeq(rows, LAMBDA r : MonthKey(r.date) = k))],
         by_day |-> [d \in dates |-> Accumulate(SelectSeq(rows, LAMBDA r : r.date = d))],
         expenses |-> [i \in 1..Len(rows_full) |->
                          [id |-> rows_full[i].id, source |-> rows_full[i].source,
                           date |-> rows_full[i].date, amount |-> rows_full[i].amount]]]

summarize_expenses(db, days, source, now) == summarize_reads(db, db, days, source, now)

-----------------------------------------------------------------------------
(* Gmail credentials and the sync.                                         *)

NoToken == [present |-> FALSE, expired |-> FALSE, refresh_token |-> FALSE]

\* get_gmail_credentials: the credential handed back (some FALSE is None),
\* the gmail_token it leaves stored, and err when a call into the
\* credential library raises.  lib_ok FALSE is the library raising where it
\* can: from_authorized_user_info on a blob that holds no refresh token,
\* creds.refresh on a refresh the provider refuses.
get_gmail_credentials(tok, lib_ok) ==
    IF ~HAS_GMAIL \/ ~tok.present
    THEN [err |-> FALSE, some |-> FALSE, creds |-> tok, gmail_token |-> tok]
    ELSE IF ~tok.refresh_token /\ ~lib_ok
    THEN [err |-> TRUE, some |-> FALSE, creds |-> tok, gmail_token |-> tok]
    ELSE IF tok.expired /\ tok.refresh_token
    THEN IF lib_ok
         THEN LET fresh == [tok EXCEPT !.expired = FALSE]
              IN  [err |-> FALSE, some |-> TRUE, creds |-> fresh, gmail_token |-> fresh]
         ELSE [err |-> TRUE, some |-> FALSE, creds |-> tok, gmail_token |-> tok]
    ELSE [err |-> FALSE, some |-> TRUE, creds |-> tok, gmail_token |-> tok]

\* A message after lines 310-346: subject, plain-text body, and the Date
\* header parsed (None when parsedate_to_datetime raises).
Msg(subject, body, date) == [subject |-> subject, body |-> body, date |-> date]

MsgText(m) == m.subject \o <<"\n">> \o m.body

MsgDate(m, now) == IF m.date.some THEN m.date.val ELSE now

StoredUnlessDuplicate(st, m, amount, now) ==
    /\ amount.some
    /\ \A i \in 1..Len(st.expenses) :
           ~(/\ st.expenses[i].source = "gmail"
             /\ st.expenses[i].date = (IF m.date.some THEN m.date.val ELSE now)
             /\ st.expenses[i].amount = amount.val)

\* Line 349: the message is stored unless no amount was extracted.
Stored(st, m, amount, now) == amount.some

\* One pass of the for loop's body, lines 304-357, for message m.  st.calls
\* is the number of provider requests that still succeed (-1: all of them).
MessageStep(st, m, now) ==
    IF st.failed THEN st
    ELSE IF st.calls = 0 THEN [st EXCEPT !.failed = TRUE, !.requests = @ + 1]
    ELSE LET amount == parse_amount(MsgText(m))
             got == [st EXCEPT !.calls = IF @ > 0 THEN @ - 1 ELSE @,
                               !.requests = @ + 1,
                               !.considered = Append(@, m)]
         IN  IF Stored(got, m, amount, now)
             THEN [store_expense(got, "gmail", MsgDate(m, now), amount.val, "sync")
                     EXCEPT !.added = @ + 1]
             ELSE got

\* The for loop over one page's messages, each pass starting from the
\* state the pass before it left.
RECURSIVE SyncMessages(_, _, _)
SyncMessages(st, msgs, now) ==
    IF msgs = <<>> THEN st
    ELSE SyncMessages(CHOOSE next \in {MessageStep(s, Head(msgs), now) : s \in {st}} : TRUE,
                      Tail(msgs), now)

\* One pass of the while loop's body on page p of the result set: the list
\* request, then the page's messages.  more: the loop goes round again.
PageStep(st, pages, p, now) ==
    IF st.calls = 0
    THEN [more |-> FALSE, st |-> [st EXCEPT !.failed = TRUE, !.requests = @ + 1]]
    ELSE LET listed == [st EXCEPT !.calls = IF @ > 0 THEN @ - 1 ELSE @,
                                  !.requests = @ + 1]
         IN  IF pages[p] = <<>> THEN [more |-> FALSE, st |-> listed]
             ELSE CHOOSE r \in {[more |-> ~done.failed /\ p # Len(pages), st |-> done] :
                                   done \in {SyncMessages(listed, pages[p], now)}} : TRUE

\* The while loop: page p of the result set (1 is pageToken None; page p
\* carries a nextPageToken unless it is the chain's last).
RECURSIVE SyncPages(_, _, _, _)
SyncPages(st, pages, p, now) ==
    CHOOSE out \in {IF r.more THEN SyncPages(r.st, pages, p + 1, now) ELSE r.st :
                       r \in {PageStep(s, pages, p, now) : s \in {st}}} : TRUE

\* sync_gmail_expenses(conn, creds): the table it leaves (durable: what the
\* file holds when the request ends), the count, and failed when a provider
\* request raised.  A credential that is expired
\* and cannot be refreshed makes the first request raise.
sync_gmail_expenses(db, seq, creds, pages, calls, now) ==
    SyncPages(Connect(db, seq) @@ [added |-> 0,
               considered |-> <<>>, requests |-> 0, failed |-> FALSE,
               calls |-> IF creds.expired THEN 0 ELSE calls],
              pages, 1, now)

-----------------------------------------------------------------------------
(* The requests the model sends, and the provider's result sets.           *)

Today0 == <<2024, 3, 1>>

AddSources == {"absent", "sms"}
AddDates == {None, Some(<<2024, 2, 29>>), Some(<<2024, 3, 2>>)}
AddAmounts == {None, Some(-100), Some(0), Some(100)}
StateDays == {0, 1, 2}
StateSources == {"all", "gmail"}
ConfigInputs == {"", "not json", "client json", "other json"}

MsgPaid == Msg(<<"R", "s", ".", " ", "1">>, <<>>, Some(<<2024, 2, 28>>))
MsgTotal == Msg(<<Rupee, "1">>, <<Rupee, "2", ".", "5">>, Some(<<2024, 2, 29>>))
MsgBare == Msg(<<"1", "2">>, <<"5">>, Some(<<2024, 2, 29>>))
MsgZero == Msg(<<"I", "N", "R", "0">>, <<>>, None)

Mailboxes == { << <<MsgPaid, MsgBare, MsgTotal>> >>,
               << <<MsgTotal>>, <<>>, <<MsgPaid>> >>,
               << <<MsgPaid>>, <<MsgTotal>> >>,
               << <<MsgZero>> >> }

-----------------------------------------------------------------------------
(* The routes.                                                             *)

\* No GET /api/state is between its queries.
NoRead == [phase |-> "idle"]

InitSystem ==
    /\ expenses = <<>>
    /\ sqlite_sequence = 0
    /\ todos = <<>>
    /\ todo_sequence = 0
    /\ settings = [gmail_client_config |-> "", gmail_token |-> NoToken]
    /\ OAUTH_FLOWS = {}
    /\ issued = 0
    /\ resp = [op |-> "none", status |-> 0]
    /\ reading = NoRead

InitExtractorIdle == text = <<>> /\ parsed = [done |-> FALSE, amount |-> None]

InitInsightsIdle ==
    /\ summary_in = <<>>
    /\ insights_out = [done |-> FALSE, err |-> FALSE, days |-> 0, insights |-> <<>>]

\* A fresh database file, and a mailbox holding three matching messages.
Init ==
    /\ today = Today0
    /\ InitSystem
    /\ mailbox = << <<MsgPaid, MsgBare, MsgTotal>> >>
    /\ InitExtractorIdle
    /\ InitInsightsIdle

\* The database file outlives the process: a start may find any credential
\* an earlier run stored.
StoredTokens ==
    {NoToken} \cup {[present |-> TRUE, expired |-> e, refresh_token |-> r] :
                       e \in BOOLEAN, r \in BOOLEAN}

InitLedger ==
    /\ today = Today0
    /\ expenses = <<>>
    /\ sqlite_sequence = 0
    /\ todos = <<>>
    /\ todo_sequence = 0
    /\ settings \in [gmail_client_config : {"client json"}, gmail_token : StoredTokens]
    /\ OAUTH_FLOWS = {}
    /\ issued = 0
    /\ resp = [op |-> "none", status |-> 0]
    /\ reading = NoRead
    /\ mailbox \in Mailboxes
    /\ InitExtractorIdle
    /\ InitInsightsIdle

pure_vars == <<text, parsed, summary_in, insights_out>>

RejectedNegativeOnly(amount) == amount < 0

\* Line 794: if amount <= 0
Rejected(amount) == amount <= 0

\* POST /api/expenses/add
api_add_expense(src, dat, amt) ==
    LET source == IF src = "absent" THEN "manual" ELSE src
        date == IF dat.some THEN dat.val ELSE today
        amount == IF amt.some /\ amt.val # 0 THEN amt.val ELSE 0
    IN  IF Rejected(amount)
        THEN /\ resp' = [op |-> "add_expense", status |-> 400]
             /\ UNCHANGED <<expenses, sqlite_sequence>>
        ELSE /\ Len(expenses) < MaxExpenses
             /\ LET st == store_expense(Connect(expenses, sqlite_sequence),
                                        source, date, amount, "add")
                IN  /\ expenses' = st.durable.expenses
                    /\ sqlite_sequence' = st.durable.sqlite_sequence
             /\ resp' = [op |-> "add_expense", status |-> 200]

AddExpense ==
    /\ \E src \in AddSources, dat \in AddDates, amt \in AddAmounts :
           api_add_expense(src, dat, amt)
    /\ UNCHANGED <<today, todos, todo_sequence, settings, OAUTH_FLOWS, issued,
                   mailbox, pure_vars, reading>>

\* GET /api/state from line 771 on, given what summarize_expenses returned.
api_state_from(summary, lib_ok) ==
    LET built == build_insights(summary.by_month, today)
        got == get_gmail_credentials(settings.gmail_token, lib_ok)
    IN  IF built.err
        THEN /\ resp' = [op |-> "state", status |-> 500]
             /\ UNCHANGED settings
        ELSE /\ settings' = [settings EXCEPT !.gmail_token = got.gmail_token]
             /\ resp' = [op |-> "state", status |-> IF got.err THEN 500 ELSE 200]

\* GET /api/state, no other request writing while it runs.
api_state(days, source, lib_ok) ==
    api_state_from(summarize_expenses(expenses, days, source, today), lib_ok)

State ==
    /\ \E days \in StateDays, source \in StateSources, lib_ok \in BOOLEAN :
           api_state(days, source, lib_ok)
    /\ UNCHANGED <<today, expenses, sqlite_sequence, todos, todo_sequence,
                   OAUTH_FLOWS, issued, mailbox, pure_vars, reading>>

\* POST /api/gmail/sync.  calls: how many provider requests succeed before
\* one raises (-1: none raises).
api_gmail_sync(lib_ok, calls) ==
    LET got == get_gmail_credentials(settings.gmail_token, lib_ok)
        run == sync_gmail_expenses(expenses, sqlite_sequence, got.creds,
                                   mailbox, calls, today)
    IN  IF ~HAS_GMAIL \/ got.err
        THEN /\ resp' = [op |-> "gmail_sync", status |-> 500, requests |-> 0, added |-> 0]
             /\ UNCHANGED <<expenses, sqlite_sequence, settings>>
        ELSE IF ~got.some
        THEN /\ resp' = [op |-> "gmail_sync", status |-> 400, requests |-> 0, added |-> 0]
             /\ UNCHANGED <<expenses, sqlite_sequence, settings>>
        ELSE \E done \in {run} :
             /\ Len(done.expenses) <= MaxExpenses
             /\ settings' = [settings EXCEPT !.gmail_token = got.gmail_token]
             /\ expenses' = done.durable.expenses
             /\ sqlite_sequence' = done.durable.sqlite_sequence
             /\ resp' = IF done.failed
                        THEN [op |-> "gmail_sync", status |-> 500,
                              requests |-> done.requests, added |-> 0,
                              considered |-> done.considered]
                        ELSE [op |-> "gmail_sync", status |-> 200,
                              requests |-> done.requests, added |-> done.added,
                              considered |-> done.considered]

GmailSync ==
    /\ \E lib_ok \in BOOLEAN, calls \in -1..MaxRequests :
           api_gmail_sync(lib_ok, calls)
    /\ UNCHANGED <<today, todos, todo_sequence, OAUTH_FLOWS, issued, mailbox,
                   pure_vars, reading>>

ledger_vars == <<expenses, sqlite_sequence>>

\* POST /api/todos/add
api_add_todo(txt) ==
    IF txt = ""
    THEN /\ resp' = [op |-> "add_todo", status |-> 400]
         /\ UNCHANGED <<todos, todo_sequence>>
    ELSE /\ todo_sequence < MaxTodos
         /\ todos' = Append(todos, [id |-> todo_sequence + 1, done |-> 0])
         /\ todo_sequence' = todo_sequence + 1
         /\ resp' = [op |-> "add_todo", status |-> 200]

AddTodo ==
    /\ \E txt \in {"", "task"} : api_add_todo(txt)
    /\ UNCHANGED <<today, ledger_vars, settings, OAUTH_FLOWS, issued, mailbox,
                   pure_vars, reading>>

\* POST /api/todos/toggle
api_toggle_todo(todo_id) ==
    IF \A i \in 1..Len(todos) : todos[i].id # todo_id
    THEN /\ resp' = [op |-> "toggle_todo", status |-> 404]
         /\ UNCHANGED todos
    ELSE /\ todos' = [i \in 1..Len(todos) |->
                         IF todos[i].id = todo_id
                         THEN [todos[i] EXCEPT !.done = IF @ # 0 THEN 0 ELSE 1]
                         ELSE todos[i]]
         /\ resp' = [op |-> "toggle_todo", status |-> 200]

ToggleTodo ==
    /\ \E todo_id \in 1..(MaxTodos + 1) : api_toggle_todo(todo_id)
    /\ UNCHANGED <<today, ledger_vars, todo_sequence, settings, OAUTH_FLOWS,
                   issued, mailbox, pure_vars, reading>>

\* POST /api/todos/delete
api_delete_todo(todo_id) ==
    /\ todos' = SelectSeq(todos, LAMBDA t : t.id # todo_id)
    /\ resp' = [op |-> "delete_todo", status |-> 200]

DeleteTodo ==
    /\ \E todo_id \in 1..(MaxTodos + 1) : api_delete_todo(todo_id)
    /\ UNCHANGED <<today, ledger_vars, todo_sequence, settings, OAUTH_FLOWS,
                   issued, mailbox, pure_vars, reading>>

\* POST /api/settings/gmail
api_save_gmail_settings(cfg) ==
    IF cfg = ""
    THEN /\ settings' = [settings EXCEPT !.gmail_client_config = ""]
         /\ resp' = [op |-> "save_gmail_settings", status |-> 200]
    ELSE IF cfg = "not json"
    THEN /\ resp' = [op |-> "save_gmail_settings", status |-> 400]
         /\ UNCHANGED settings
    ELSE /\ settings' = [settings EXCEPT !.gmail_client_config = cfg]
         /\ resp' = [op |-> "save_gmail_settings", status |-> 200]

SaveGmailSettings ==
    /\ \E cfg \in ConfigInputs : api_save_gmail_settings(cfg)
    /\ UNCHANGED <<today, ledger_vars, todos, todo_sequence, OAUTH_FLOWS, issued,
                   mailbox, pure_vars, reading>>

\* GET /api/gmail/start.  The state token is the OAuth library's fresh
\* random value: the next one never generated before.
api_gmail_start ==
    IF ~HAS_GMAIL
    THEN /\ resp' = [op |-> "gmail_start", status |-> 500]
         /\ UNCHANGED <<OAUTH_FLOWS, issued>>
    ELSE IF settings.gmail_client_config = ""
    THEN /\ resp' = [op |-> "gmail_start", status |-> 400]
         /\ UNCHANGED <<OAUTH_FLOWS, issued>>
    ELSE IF settings.gmail_client_config # "client json"
    THEN /\ resp' = [op |-> "gmail_start", status |-> 500]
         /\ UNCHANGED <<OAUTH_FLOWS, issued>>
    ELSE /\ issued < MaxFlows
         /\ issued' = issued + 1
         /\ OAUTH_FLOWS' = OAUTH_FLOWS \cup {issued + 1}
         /\ resp' = [op |-> "gmail_start", status |-> 307]

GmailStart ==
    /\ api_gmail_start
    /\ UNCHANGED <<today, ledger_vars, todos, todo_sequence, settings, mailbox,
                   pure_vars, reading>>

PopKept(flows, state) == flows

\* OAUTH_FLOWS.pop(state), line 907.
Pop(flows, state) == flows \ {state}

\* GET /api/gmail/callback.  code_ok: the provider accepts the code;
\* refresh_token: whether the credential it grants carries one.
api_gmail_callback(state, code_ok, refresh_token) ==
    IF state \notin OAUTH_FLOWS
    THEN /\ resp' = [op |-> "gmail_callback", status |-> 400]
         /\ UNCHANGED <<OAUTH_FLOWS, settings>>
    ELSE /\ OAUTH_FLOWS' = Pop(OAUTH_FLOWS, state)
         /\ IF code_ok
            THEN /\ settings' = [settings EXCEPT !.gmail_token =
                                    [present |-> TRUE, expired |-> FALSE,
                                     refresh_token |-> refresh_token]]
                 /\ resp' = [op |-> "gmail_callback", status |-> 200]
            ELSE /\ resp' = [op |-> "gmail_callback", status |-> 500]
                 /\ UNCHANGED settings

GmailCallback ==
    /\ \E state \in 1..(MaxFlows + 1), code_ok \in BOOLEAN, refresh_token \in BOOLEAN :
           api_gmail_callback(state, code_ok, refresh_token)
    /\ UNCHANGED <<today, ledger_vars, todos, todo_sequence, issued, mailbox,
                   pure_vars, reading>>

\* The process restarts: OAUTH_FLOWS is rebuilt empty (line 40), the
\* database file stays.
Restart ==
    /\ OAUTH_FLOWS # {}
    /\ OAUTH_FLOWS' = {}
    /\ resp' = [op |-> "restart", status |-> 0]
    /\ UNCHANGED <<today, ledger_vars, todos, todo_sequence, settings, issued,
                   mailbox, pure_vars, reading>>

\* Time passes the stored access token's expiry (creds.expired).
TokenExpires ==
    /\ settings.gmail_token.present
    /\ ~settings.gmail_token.expired
    /\ settings' = [settings EXCEPT !.gmail_token.expired = TRUE]
    /\ resp' = [op |-> "clock", status |-> 0]
    /\ UNCHANGED <<today, ledger_vars, todos, todo_sequence, OAUTH_FLOWS, issued,
                   mailbox, pure_vars, reading>>

Next ==
    \/ AddExpense
    \/ State
    \/ GmailSync
    \/ AddTodo
    \/ ToggleTodo
    \/ DeleteTodo
    \/ SaveGmailSettings
    \/ GmailStart
    \/ GmailCallback
    \/ Restart
    \/ TokenExpires

Spec == Init /\ [][Next]_vars

\* The ledger's own routes, over every result set and stored credential.
NextLedger ==
    \/ AddExpense
    \/ State
    \/ GmailSync
    \/ TokenExpires

SpecLedger == InitLedger /\ [][NextLedger]_vars

\* GET /api/state runs in a worker thread and issues its two SELECTs
\* (lines 161 and 175-185) outside any transaction, so a request that
\* commits in between is seen by the second alone.  The first query:
api_state_first(days, source) ==
    /\ reading.phase # "read"
    /\ reading' = [phase |-> "read", days |-> days, source |-> source,
                   rows |-> expenses]
    /\ resp' = [op |-> "state_query", status |-> 0]

StateFirstRead ==
    /\ \E days \in StateDays, source \in StateSources : api_state_first(days, source)
    /\ UNCHANGED <<today, ledger_vars, todos, todo_sequence, settings, OAUTH_FLOWS,
                   issued, mailbox, pure_vars>>

\* The second query and the rest of the handler.
api_state_second(lib_ok) ==
    /\ reading.phase = "read"
    /\ \E summary \in {summarize_reads(reading.rows, expenses, reading.days,
                                       reading.source, today)} :
           /\ api_state_from(summary, lib_ok)
           /\ reading' = IF resp'.status = 200
                         THEN [phase |-> "answered", days |-> reading.days,
                               source |-> reading.source, summary |-> summary]
                         ELSE [phase |-> "failed"]

StateSecondRead ==
    /\ \E lib_ok \in BOOLEAN : api_state_second(lib_ok)
    /\ UNCHANGED <<today, ledger_vars, todos, todo_sequence, OAUTH_FLOWS, issued,
                   mailbox, pure_vars>>

\* A stored credential that needs no refresh, and any result set.
InitReads ==
    /\ today = Today0
    /\ expenses = <<>>
    /\ sqlite_sequence = 0
    /\ todos = <<>>
    /\ todo_sequence = 0
    /\ settings = [gmail_client_config |-> "client json",
                   gmail_token |-> [present |-> TRUE, expired |-> FALSE,
                                    refresh_token |-> TRUE]]
    /\ OAUTH_FLOWS = {}
    /\ issued = 0
    /\ resp = [op |-> "none", status |-> 0]
    /\ reading = NoRead
    /\ mailbox \in Mailboxes
    /\ InitExtractorIdle
    /\ InitInsightsIdle

\* The summary's two queries with the ledger's writers between them.
NextReads ==
    \/ StateFirstRead
    \/ StateSecondRead
    \/ AddExpense
    \/ GmailSync

SpecReads == InitReads /\ [][NextReads]_vars

\* The mail connect flow: saving the client config, start, callback and
\* the sync trigger, with the events that bear on them.
NextConnect ==
    \/ SaveGmailSettings
    \/ GmailStart
    \/ GmailCallback
    \/ GmailSync
    \/ Restart
    \/ TokenExpires

SpecConnect == Init /\ [][NextConnect]_vars

-----------------------------------------------------------------------------
(* The amount extractor on its own: parse_amount applied to every text      *)
(* made of at most MaxFrags fragments.                                      *)

Lexicon == {<<Rupee>>, <<"I", "N", "R">>, <<"R", "s">>, <<"r", "s">>, <<".">>,
            <<",">>, <<" ">>, <<"1">>, <<"2", "5">>}

Texts == {Flatten(fs) : fs \in UNION {[1..k -> Lexicon] : k \in 0..MaxFrags}}

InitParse ==
    /\ today = Today0
    /\ InitSystem
    /\ mailbox = << <<>> >>
    /\ text \in Texts
    /\ parsed = [done |-> FALSE, amount |-> None]
    /\ InitInsightsIdle

Extract ==
    /\ ~parsed.done
    /\ parsed' = [done |-> TRUE, amount |-> parse_amount(text)]
    /\ UNCHANGED <<today, expenses, sqlite_sequence, todos, todo_sequence, settings,
                   OAUTH_FLOWS, issued, mailbox, resp, text, summary_in, insights_out,
                   reading>>

NextParse == Extract

SpecParse == InitParse /\ [][NextParse]_vars

-----------------------------------------------------------------------------
(* The insight generator on its own: build_insights applied to every        *)
(* by_month of at most MaxMonths months.                                    *)

InsightYears == {1, 2023, 2024, 9999}
InsightTotals == {0, 10000, 25000}
InsightTodays == {<<2024, 3, 1>>, <<2024, 12, 31>>}

InsightMonths == {<<y, m>> : y \in InsightYears, m \in 1..12}

RECURSIVE KeySets(_)
KeySets(n) ==
    IF n = 0 THEN {{}}
    ELSE LET smaller == KeySets(n - 1)
         IN  smaller \cup {S \cup {k} : S \in smaller, k \in InsightMonths}

ByMonths == UNION {[K -> InsightTotals] : K \in KeySets(MaxMonths)}

InitInsights ==
    /\ today \in InsightTodays
    /\ InitSystem
    /\ InitExtractorIdle
    /\ mailbox = << <<>> >>
    /\ summary_in \in ByMonths
    /\ insights_out = [done |-> FALSE, err |-> FALSE, days |-> 0, insights |-> <<>>]

BuildInsights ==
    /\ ~insights_out.done
    /\ insights_out' = [done |-> TRUE] @@ build_insights(summary_in, today)
    /\ UNCHANGED <<today, expenses, sqlite_sequence, todos, todo_sequence, settings,
                   OAUTH_FLOWS, issued, mailbox, resp, text, parsed, summary_in,
                   reading>>

NextInsights == BuildInsights

SpecInsights == InitInsights /\ [][NextInsights]_vars

-----------------------------------------------------------------------------
(* Properties.                                                             *)

IsPrefix(a, b) == Len(a) <= Len(b) /\ SubSeq(b, 1, Len(a)) = a

\* The rows of b after its first Len(a).
Suffix(a, b) == SubSeq(b, Len(a) + 1, Len(b))

NonPositive(amt) == ~amt.some \/ amt.val <= 0

\* C1: an add-expense request whose amount is 0, negative or missing is
\* answered 400 and leaves the ledger as it was; one whose amount is > 0
\* is answered 200 and appends exactly one record.
C1_AddValidation ==
    [][\A src \in AddSources, dat \in AddDates, amt \in AddAmounts :
           api_add_expense(src, dat, amt) =>
               IF NonPositive(amt)
               THEN resp'.status = 400 /\ expenses' = expenses
               ELSE /\ resp'.status = 200
                    /\ IsPrefix(expenses, expenses')
                    /\ Len(expenses') = Len(expenses) + 1
                    /\ expenses'[Len(expenses')].amount = amt.val]_vars

C1_Witness ==
    /\ resp.op = "add_expense"
    /\ resp.status = 400
    /\ Len(expenses) = 1
    /\ expenses[1].via = "add"

\* The texts of the three markers, letters folded: the Rupee sign, INR,
\* and Rs with or without its period.
MarkerTexts == {<<Rupee>>, <<"i", "n", "r">>, <<"r", "s">>, <<"r", "s", ".">>}

\* A currency-marked literal starts at k: a digit there, and before it
\* optional whitespace with a marker right before that.
MarkedAt(t, k) ==
    /\ t[k] \in Digit
    /\ \E i \in 1..(k - 1), mk \in MarkerTexts :
           /\ LitAt(t, i, mk)
           /\ i + Len(mk) <= k
           /\ \A h \in (i + Len(mk))..(k - 1) : t[h] \in Space

RECURSIVE Pow10(_)
Pow10(n) == IF n = 0 THEN 1 ELSE 10 * Pow10(n - 1)

RECURSIVE PlaceValue(_, _)
PlaceValue(digs, p) ==
    IF p > Len(digs) THEN 0
    ELSE DigitVal(digs[p]) * Pow10(Len(digs) - p) + PlaceValue(digs, p + 1)

\* The hundredths of the literal starting at k: its digits, thousands
\* commas dropped, and a fraction of one or two digits.
LiteralValue(t, k) ==
    LET e == CHOOSE e \in k..Len(t) :
                 /\ \A h \in k..e : t[h] \in Digit \cup {","}
                 /\ e = Len(t) \/ t[e + 1] \notin Digit \cup {","}
        one == e + 2 <= Len(t) /\ t[e + 1] = "." /\ t[e + 2] \in Digit
        two == one /\ e + 3 <= Len(t) /\ t[e + 3] \in Digit
        digs == SelectSeq(SubSeq(t, k, e), LAMBDA c : c \in Digit)
    IN  100 * PlaceValue(digs, 1)
          + (IF one THEN 10 * DigitVal(t[e + 2]) ELSE 0)
          + (IF two THEN DigitVal(t[e + 3]) ELSE 0)

MarkedValues(t) == {LiteralValue(t, k) : k \in {k \in 1..Len(t) : MarkedAt(t, k)}}

\* C6: the extractor returns the largest value among the currency-marked
\* literals of the text, and None exactly when the text holds none; a
\* number with no marker before it contributes nothing.
C6_ExtractorMax ==
    parsed.done =>
        IF MarkedValues(text) = {} THEN parsed.amount = None
        ELSE parsed.amount = Some(SetMax(MarkedValues(text)))

C6_Witness ==
    /\ parsed.done
    /\ Cardinality(MarkedValues(text)) = 2
    /\ \E k \in 1..Len(text) : text[k] \in Digit /\ ~MarkedAt(text, k)
    /\ parsed.amount = Some(2500)

\* The days of month m of year y.
CalendarDays(y, m) ==
    CASE m \in {1, 3, 5, 7, 8, 10, 12} -> 31
      [] m \in {4, 6, 9, 11} -> 30
      [] OTHER -> IF y % 400 = 0 \/ (y % 4 = 0 /\ y % 100 # 0) THEN 29 ELSE 28

LatestMonth(by_month) ==
    CHOOSE k \in DOMAIN by_month :
        \A o \in DOMAIN by_month : 12 * o[1] + o[2] <= 12 * k[1] + k[2]

\* C10: when the latest month is not the current calendar month, "days so
\* far" is the number of days of that month, 31 for December included, and
\* the computation raises nothing.
C10_DaysOfMonth ==
    (insights_out.done /\ DOMAIN summary_in # {}
       /\ LatestMonth(summary_in) # <<today[1], today[2]>>)
    => /\ ~insights_out.err
       /\ insights_out.days =
              CalendarDays(LatestMonth(summary_in)[1], LatestMonth(summary_in)[2])

\* The messages among ms from which an amount is extracted.
Extractable(ms) == SelectSeq(ms, LAMBDA m : MarkedValues(MsgText(m)) # {})

\* C2: a sync run that completes appends, to whatever the ledger held, one
\* "gmail" record per message an amount is extracted from, in message
\* order, skips the others, and returns the number it appended; a run that
\* follows a completed run over the same messages appends as many again.
C2_SyncInserts ==
    [][(resp'.op = "gmail_sync" /\ resp'.status = 200) =>
           LET new == Suffix(expenses, expenses')
               from == Extractable(resp'.considered)
           IN  /\ IsPrefix(expenses, expenses')
               /\ Len(new) = Len(from)
               /\ \A i \in 1..Len(new) :
                      /\ new[i].source = "gmail"
                      /\ new[i].amount = SetMax(MarkedValues(MsgText(from[i])))
               /\ resp'.added = Len(new)
               /\ (resp.op = "gmail_sync" /\ resp.status = 200)
                      => resp'.added = resp.added]_vars

C2_Witness ==
    /\ resp.op = "gmail_sync"
    /\ resp.status = 200
    /\ Len(resp.considered) = 3
    /\ resp.added = 2
    /\ Len(expenses) = 2

\* What GET /api/state answers in the current state.
StateSummary(days, source) == summarize_expenses(expenses, days, source, today)

\* The record lies in the window of days and source: no earlier than
\* days - 1 days before today, and of the source asked for.
InWindow(r, days, source) ==
    /\ days <= 0 \/ ToOrdinal(r.date) >= ToOrdinal(today) - (days - 1)
    /\ source = "all" \/ r.source = source

RECURSIVE SetSum(_)
SetSum(S) ==
    IF S = {} THEN 0 ELSE LET r == CHOOSE r \in S : TRUE IN r.amount + SetSum(S \ {r})

Listed(summary) == {summary.expenses[i].id : i \in 1..Len(summary.expenses)}

\* C3: a summary aggregates exactly the records in the window: dated
\* today - (days - 1) or later when days > 0, any date when days <= 0, and
\* of the source asked for unless that is "all".
C3_Window ==
    \A days \in StateDays, source \in StateSources :
        LET summary == StateSummary(days, source)
            window == {r \in Range(expenses) : InWindow(r, days, source)}
        IN  /\ Listed(summary) = {r.id : r \in window}
            /\ Len(summary.expenses) = Cardinality(window)
            /\ summary.total = SetSum(window)
            /\ DOMAIN summary.by_day = {r.date : r \in window}
            /\ \A d \in DOMAIN summary.by_day :
                   summary.by_day[d] = SetSum({r \in window : r.date = d})
            /\ DOMAIN summary.by_month = {MonthKey(r.date) : r \in window}
            /\ \A k \in DOMAIN summary.by_month :
                   summary.by_month[k] = SetSum({r \in window : MonthKey(r.date) = k})

C3_Witness ==
    /\ resp.op = "state"
    /\ resp.status = 200
    /\ \E i, j \in 1..Len(expenses) :
           /\ ToOrdinal(expenses[i].date) = ToOrdinal(today) - (2 - 1)
           /\ ToOrdinal(expenses[j].date) = ToOrdinal(today) - 2
           /\ expenses[i].id \in Listed(StateSummary(2, "all"))
           /\ expenses[j].id \notin Listed(StateSummary(2, "all"))
           /\ expenses[j].id \in Listed(StateSummary(0, "all"))

\* C4: for days > 0 every record a summary counts is dated within
\* [today - (days - 1), today]; a record dated after today is in none of
\* total, by_month, by_day and records.
C4_NoFutureRecord ==
    \A days \in StateDays \ {0}, source \in StateSources :
        LET summary == StateSummary(days, source) IN
        /\ \A i \in 1..Len(summary.expenses) :
               /\ ToOrdinal(summary.expenses[i].date) >= ToOrdinal(today) - (days - 1)
               /\ ToOrdinal(summary.expenses[i].date) <= ToOrdinal(today)
        /\ \A d \in DOMAIN summary.by_day : ToOrdinal(d) <= ToOrdinal(today)
        /\ summary.total =
               SetSum({r \in Range(expenses) :
                          /\ InWindow(r, days, source)
                          /\ ToOrdinal(r.date) <= ToOrdinal(today)})

\* C5: the records of a summary are in non-increasing date order, and of
\* two adjacent records of one date the later inserted comes first.
C5_Ordering ==
    \A days \in StateDays, source \in StateSources :
        LET list == StateSummary(days, source).expenses IN
        \A i \in 1..(Len(list) - 1) :
            /\ ToOrdinal(list[i].date) >= ToOrdinal(list[i + 1].date)
            /\ list[i].date = list[i + 1].date => list[i].id > list[i + 1].id

C5_Witness ==
    /\ resp.op = "state"
    /\ resp.status = 200
    /\ Len(StateSummary(0, "all").expenses) = 2
    /\ expenses[1].date = expenses[2].date
    /\ expenses[1].via # expenses[2].via

\* C7: the ledger is append-only: no step of any route changes or removes
\* a stored record, and every record a step inserts gets an identifier
\* greater than that of every record before it.
C7_AppendOnly ==
    [][/\ IsPrefix(expenses, expenses')
       /\ \A i \in (Len(expenses) + 1)..Len(expenses') :
              \A j \in 1..(i - 1) : expenses'[i].id > expenses'[j].id]_vars

C7_Witness ==
    /\ Len(expenses) = 2
    /\ expenses[1].via = "sync"
    /\ expenses[2].via = "sync"
    /\ resp.op = "delete_todo"
    /\ todo_sequence = 1
    /\ settings.gmail_token.present

\* C8 as claimed: every record of the ledger has amount > 0.
C8_AllPositive == \A i \in 1..Len(expenses) : expenses[i].amount > 0

\* C8 as amended: every record add-expense inserted has amount > 0, and
\* every record a sync run inserted has amount >= 0.
C8_PositiveByAdd ==
    \A i \in 1..Len(expenses) :
        /\ expenses[i].via = "add" => expenses[i].amount > 0
        /\ expenses[i].via = "sync" => expenses[i].amount >= 0

C8_Witness ==
    \E i, j \in 1..Len(expenses) :
        /\ expenses[i].via = "sync"
        /\ expenses[i].amount = 0
        /\ expenses[j].via = "add"

Unusable(tok) == ~tok.present \/ (tok.expired /\ ~tok.refresh_token)

\* C9: with the stored credential absent, or expired with no refresh
\* token, the sync trigger answers the auth error (400), sends the provider
\* no request and inserts nothing; with it expired and refreshable, a run
\* that proceeds has stored the refreshed credential.
C9_SyncAuth ==
    [][resp'.op = "gmail_sync" =>
           /\ Unusable(settings.gmail_token) =>
                  /\ resp'.status = 400
                  /\ resp'.requests = 0
                  /\ expenses' = expenses
           /\ (/\ settings.gmail_token.present
               /\ settings.gmail_token.expired
               /\ settings.gmail_token.refresh_token
               /\ resp'.requests > 0) =>
                  settings'.gmail_token =
                      [settings.gmail_token EXCEPT !.expired = FALSE]]_vars

\* The month before the latest of by_month, when it holds two or more.
PreviousMonth(by_month) == LatestMonth([k \in DOMAIN by_month \ {LatestMonth(by_month)} |-> 0])

\* C11: build_insights returns the empty list for an empty by_month;
\* otherwise it emits the spending insight first, and the percent-change
\* insight exactly when there are two or more months and the previous
\* month's total is not zero (a zero total is never divided by).
C11_ZeroGuard ==
    insights_out.done =>
        /\ ~insights_out.err
        /\ IF DOMAIN summary_in = {} THEN insights_out.insights = <<>>
           ELSE LET emitted == insights_out.insights
                    two == Cardinality(DOMAIN summary_in) >= 2
                    due == two /\ summary_in[PreviousMonth(summary_in)] # 0
                IN  /\ Len(emitted) = (IF due THEN 2 ELSE 1)
                    /\ emitted[1].kind = "spending"
                    /\ emitted[1].total = summary_in[LatestMonth(summary_in)]
                    /\ due => /\ emitted[2].kind = "change"
                              /\ emitted[2].base = summary_in[PreviousMonth(summary_in)]
                              /\ emitted[2].base # 0

\* The same statement over the calls that return.
C11_ZeroGuardOnReturn == insights_out.err \/ C11_ZeroGuard

\* C15: an emitted percent-change insight says "higher" exactly when the
\* latest month's total is greater than the previous month's, and "lower"
\* exactly when it is less.
C15_Direction ==
    (insights_out.done /\ ~insights_out.err) =>
        \A i \in 1..Len(insights_out.insights) :
            LET x == insights_out.insights[i]
                last == summary_in[LatestMonth(summary_in)]
                prev == summary_in[PreviousMonth(summary_in)]
            IN  x.kind = "change" =>
                    /\ x.direction = "higher" <=> last > prev
                    /\ x.direction = "lower" <=> last < prev

\* C13: a callback stores a credential only by consuming a state token that
\* a start of this process lifetime issued and no callback consumed before;
\* any other callback is answered 400 and leaves the stored credential as
\* it was.  A consumed token, and one a restart dropped, never comes back:
\* the tokens a step adds are freshly issued ones.
C13_StateTokenOnce ==
    [][/\ OAUTH_FLOWS \subseteq 1..issued
       /\ (OAUTH_FLOWS' \ OAUTH_FLOWS) \subseteq (issued + 1)..issued'
       /\ resp'.op = "restart" => OAUTH_FLOWS' = {}
       /\ resp'.op # "gmail_callback" =>
              settings'.gmail_token \in {settings.gmail_token,
                                         [settings.gmail_token EXCEPT !.expired = ~@]}
       /\ \A state \in 1..(MaxFlows + 1), code_ok \in BOOLEAN, refresh_token \in BOOLEAN :
              api_gmail_callback(state, code_ok, refresh_token) =>
                  IF state \in OAUTH_FLOWS
                  THEN /\ state \notin OAUTH_FLOWS'
                       /\ resp'.status = 200 <=> code_ok
                       /\ ~code_ok => settings' = settings
                  ELSE /\ resp'.status = 400
                       /\ settings' = settings
                       /\ OAUTH_FLOWS' = OAUTH_FLOWS]_vars

\* A second callback is turned away after the first one connected.
C13_Witness ==
    /\ resp.op = "gmail_callback"
    /\ resp.status = 400
    /\ issued >= 1
    /\ OAUTH_FLOWS = {}
    /\ settings.gmail_token.present

RECURSIVE ValueSum(_)
ValueSum(f) ==
    IF DOMAIN f = {} THEN 0
    ELSE LET k == CHOOSE k \in DOMAIN f : TRUE
         IN  f[k] + ValueSum([o \in DOMAIN f \ {k} |-> f[o]])

\* The records dated before the cutoff, and those dated on or after it.
DatedBefore(cutoff) == SelectSeq(expenses, LAMBDA r : TupleLess(r.date, cutoff))
DatedFrom(cutoff) == SelectSeq(expenses, LAMBDA r : ~TupleLess(r.date, cutoff))

\* C12: for every date cutoff and source, the totals summarize_expenses
\* gives for the records before the cutoff and for those from it on add
\* up to its total for the whole ledger, and that total is also the sum of
\* its by_month values and the sum of its by_day values.
C12_Additive ==
    \A source \in StateSources :
        LET whole == summarize_expenses(expenses, 0, source, today) IN
        /\ \A cutoff \in {r.date : r \in Range(expenses)} \cup {today} :
               summarize_expenses(DatedBefore(cutoff), 0, source, today).total
                 + summarize_expenses(DatedFrom(cutoff), 0, source, today).total
               = whole.total
        /\ whole.total = ValueSum(whole.by_month)
        /\ whole.total = ValueSum(whole.by_day)

\* Two records in different months, split by today's date.
C12_Witness ==
    /\ resp.op = "state"
    /\ Len(DatedBefore(today)) = 1
    /\ Len(DatedFrom(today)) = 1
    /\ Cardinality(DOMAIN StateSummary(0, "all").by_month) = 2
    /\ StateSummary(0, "all").total = 200

\* C14: a sync run that completes has fetched and considered every message
\* of every page of the result set, in order, a page after an empty page
\* that carries a next-page token included, and has sent one list request
\* per page and one get request per message.
C14_AllPages ==
    [][(resp'.op = "gmail_sync" /\ resp'.status = 200) =>
           /\ resp'.considered = Flatten(mailbox)
           /\ resp'.requests = Len(mailbox) + Len(Flatten(mailbox))]_vars

\* C17: a sync run that fails on a provider request after its first leaves
\* in the ledger one "gmail" record per message it had fetched and
\* extracted an amount from, and answers 500 with no count; a sync that
\* follows it over the same messages inserts a record for each of those
\* messages again.
C17_PartialCommit ==
    [][(resp'.op = "gmail_sync" /\ resp'.status = 500 /\ resp'.requests > 0) =>
           LET new == Suffix(expenses, expenses')
               from == Extractable(resp'.considered)
           IN  /\ IsPrefix(expenses, expenses')
               /\ Len(new) = Len(from)
               /\ \A i \in 1..Len(new) :
                      /\ new[i].source = "gmail"
                      /\ new[i].via = "sync"
                      /\ new[i].amount = SetMax(MarkedValues(MsgText(from[i])))
                      /\ new[i].date = MsgDate(from[i], today)
               /\ resp'.added = 0
               /\ (/\ resp.op = "gmail_sync"
                   /\ resp.status = 500
                   /\ resp.requests > 0
                   /\ resp.considered = resp'.considered) =>
                      LET before == Extractable(resp.considered)
                          old == SubSeq(expenses, Len(expenses) - Len(before) + 1,
                                        Len(expenses))
                      IN  \A i \in 1..Len(before) :
                              /\ new[i].date = old[i].date
                              /\ new[i].amount = old[i].amount
                              /\ new[i].id > old[i].id]_vars

\* A failed run left a record, and the failed retry after it left it again.
C17_Witness ==
    /\ resp.op = "gmail_sync"
    /\ resp.status = 500
    /\ resp.requests > 0
    /\ Len(resp.considered) >= 1
    /\ Len(expenses) = 2
    /\ expenses[1].via = "sync"
    /\ expenses[2].via = "sync"
    /\ expenses[1].date = expenses[2].date
    /\ expenses[1].amount = expenses[2].amount

\* C16: in a summary response the total is the sum of the amounts of the
\* records listed, and by_month and by_day have exactly the months and the
\* dates of the records listed, a request that inserts between the
\* summary's two queries notwithstanding.
C16_SummaryConsistent ==
    reading.phase = "answered" =>
        LET summary == reading.summary
            listed == summary.expenses
        IN  /\ summary.total = Accumulate(listed)
            /\ DOMAIN summary.by_day = {listed[i].date : i \in 1..Len(listed)}
            /\ DOMAIN summary.by_month =
                   {MonthKey(listed[i].date) : i \in 1..Len(listed)}

=============================================================================
